---- MODULE Spec2Model ----
(***************************************************************************)
(* Model of colliding_particle_threaded/src/main.rs: a particle system     *)
(* whose particles are moved and scanned for collisions by the jobs of a   *)
(* scoped thread pool.                                                     *)
(*                                                                         *)
(* Coordinates are fixed-point: one grid step is 1/Res of a unit length,   *)
(* and rand::random::<f64>() is one of the 2*Res values k/(2*Res),         *)
(* k = 0 .. 2*Res-1, of [0, 1), so that (rand - 0.5) * 2.0 is (k - Res)    *)
(* grid steps, exactly.                                                    *)
(*                                                                         *)
(* Two programs run the same jobs on the same pool:                        *)
(*   Spec     the loop of main (lines 121-160);                            *)
(*   SpecOps  a caller of ParticleSystem::move_particles and               *)
(*            ParticleSystem::check_collisions (lines 99-118), in any      *)
(*            order, one call at a time.                                   *)
(***************************************************************************)
EXTENDS Integers, Sequences, FiniteSets, TLC

\* ------------------------------------------------------------- bounds
\* Grid steps per unit length.
Res == 2
\* Number of particles (main builds 100).
NumParticles == 3
\* enclosure_size, in grid steps (main uses 10.0).
EnclosureSize == 2
\* collision_threshold, in grid steps (main uses 0.1).
Threshold == 1
\* Iterations of the loop of main the model follows.
MaxTicks == 2
\* SpecOps stops calling check_collisions once the counter is this large.
MaxCounter == 2
\* Pool size and chunk length (line 9 sets 4; scaled with NumParticles so
\* that the particles still fall into a full chunk and a shorter last one).
NUM_OF_THREADS == 2

Min(a, b) == IF a <= b THEN a ELSE b

\* ------------------------------------------------------------- state
VARIABLES
    particles,          \* ParticleSystem.particles: Vec<Particle>
    collision_counter,  \* ParticleSystem.collision_counter: AtomicUsize
    count,              \* main's count of loop iterations
    pc,                 \* where the submitting thread is
    it,                 \* the chunk iterator: particles already handed out
    arg,                \* SpecOps: the argument of the call in progress
    queue,              \* jobs sent to the pool, not yet taken by a thread
    running,            \* jobs a pool thread is executing, with their locals
    h_dispatched,       \* history: the jobs executed on the scope so far
    h_moves,            \* history: committed moves per particle since the
                        \*   call (tick) began
    h_compared,         \* history: comparisons per pair since it began
    h_counter0,         \* history: the counter when the call (tick) began
    h_prev,             \* history: the call before the one in progress
    h_new               \* history: the arguments ParticleSystem::new was given

vars == <<particles, collision_counter, count, pc, it, arg, queue, running,
          h_dispatched, h_moves, h_compared, h_counter0, h_prev, h_new>>

Index == 1..NumParticles
Pairs == {pr \in Index \X Index : pr[1] < pr[2]}

\* ------------------------------------------------------------- Particle
Particle(x, y) == [x |-> x, y |-> y]

\* Mutants of collide: the boundary excluded; the differences compared
\* with the threshold as they are, neither squared nor made positive.
collideStrict(self, other, threshold) ==
    LET dx == self.x - other.x
        dy == self.y - other.y
        distance_squared == dx * dx + dy * dy
    IN  distance_squared < threshold * threshold

collideOneSided(self, other, threshold) ==
    LET dx == self.x - other.x
        dy == self.y - other.y
    IN  dx <= threshold /\ dy <= threshold

\* Particle::collide: squared distance against the squared threshold.
collide(self, other, threshold) ==
    LET dx == self.x - other.x
        dy == self.y - other.y
        distance_squared == dx * dx + dy * dy
    IN  distance_squared <= threshold * threshold

\* ------------------------------------------------------------- Mover
\* The values of rand::random::<f64>(), as numerators k of k/(2*Res).
Draws == 0..(2 * Res - 1)

\* Mutants of the displacement: 0.5 added, not subtracted; the factor
\* doubled.
DisplacementPlus(k) == k + Res

DisplacementWide(k) == 2 * (k - Res)

\* (rand - 0.5) * 2.0, in grid steps.
Displacement(k) == k - Res

\* Mutants of the acceptance test: the upper limits forgotten; the limits
\* excluded.
InEnclosureNoUpper(new_x, new_y, enclosure_size) ==
    new_x >= 0 /\ new_y >= 0

InEnclosureStrict(new_x, new_y, enclosure_size) ==
    /\ new_x > 0 /\ new_x < enclosure_size
    /\ new_y > 0 /\ new_y < enclosure_size

\* The acceptance test of the rejection loop (line 42).
InEnclosure(new_x, new_y, enclosure_size) ==
    /\ new_x >= 0 /\ new_x <= enclosure_size
    /\ new_y >= 0 /\ new_y <= enclosure_size

\* Mutant: every other particle of the slice is passed over.
NextParticleSkip(i) == i + 2

\* `for particle in list`: the next particle of the slice.
NextParticle(i) == i + 1

\* ------------------------------------------------------------- CollisionScanner
\* `for i in 0..len { for j in (i + 1)..len`: the first pair, and the pair
\* after (i, j).  The loops are over once j >= len.
FirstPair == [i |-> 0, j |-> 1]

NextPair(i, j, len) ==
    IF j + 1 < len THEN [i |-> i, j |-> j + 1] ELSE [i |-> i + 1, j |-> i + 2]

\* Mutants of the increment: a store in place of an add; a subtraction.
FetchAddStore(counter, n) == n

FetchSub(counter, n) == counter - n

\* collision_counter.fetch_add(n, Ordering::SeqCst): one atomic step.
FetchAdd(counter, n) == counter + n

\* ------------------------------------------------------------- chunks
\* Mutants of the chunk iterator: the whole rest of the slice as one chunk;
\* chunks that share their end particle with the next chunk; the short
\* chunk handed out first.
NextChunkWhole(done, n, size) == [lo |-> done + 1, hi |-> n]

NextChunkOverlap(done, n, size) ==
    [lo |-> IF done = 0 THEN 1 ELSE done, hi |-> Min(done + size, n)]

NextChunkShortFirst(done, n, size) ==
    [lo |-> done + 1,
     hi |-> IF done = 0 /\ n % size # 0 THEN n % size
            ELSE Min(done + size, n)]

\* slice::chunks / chunks_mut(size) as an iterator over a slice of n
\* elements of which `done` have been handed out: the next chunk.
NextChunk(done, n, size) == [lo |-> done + 1, hi |-> Min(done + size, n)]

\* ------------------------------------------------------------- the pool
\* Mutant: every closure calls thread_move_particles.
JobMoveOnly(kind, chunk, a) ==
    [kind |-> "move", lo |-> chunk.lo, hi |-> chunk.hi, arg |-> a]

\* A job executed on the scope: a closure that owns its slice lo..hi and a
\* copy of enclosure_size (a move) or threshold (a scan).
Job(kind, chunk, a) ==
    [kind |-> kind, lo |-> chunk.lo, hi |-> chunk.hi, arg |-> a]

\* The job as a pool thread starts it: the locals of thread_move_particles
\* or thread_check_collisions at their first statement.
Begin(job) ==
    [kind |-> job.kind, lo |-> job.lo, hi |-> job.hi, arg |-> job.arg,
     i |-> FirstPair.i,
     j |-> IF job.kind = "scan" THEN FirstPair.j ELSE 0,
     stage |-> IF job.kind = "scan" THEN "scan" ELSE "draw",
     new_y |-> 0]

ChunkLen(t) == t.hi - t.lo + 1

Overlap(a, b) == a.lo <= b.hi /\ b.lo <= a.hi

\* Mutant: the scope is left without waiting for its jobs.
JoinNone == TRUE

\* Scope's drop (join_all): every job executed on the scope has finished.
JoinAll == queue = <<>> /\ running = {}

\* The call that has just returned, as the next call records it: its kind,
\* its argument and what it added to the counter.
NoCall == [kind |-> "none", arg |-> 0, gain |-> 0]

LastCall ==
    IF h_dispatched = <<>> THEN NoCall
    ELSE [kind |-> h_dispatched[1].kind, arg |-> arg,
          gain |-> collision_counter - h_counter0]

NoHistory ==
    /\ h_prev = NoCall
    /\ h_dispatched = <<>>
    /\ h_moves = [p \in Index |-> 0]
    /\ h_compared = [pr \in Pairs |-> 0]

\* The history variables at the start of a call (of a tick).
ResetHistory ==
    /\ h_dispatched' = <<>>
    /\ h_moves' = [p \in Index |-> 0]
    /\ h_compared' = [pr \in Pairs |-> 0]
    /\ h_counter0' = collision_counter

\* scope.execute(job) for the next chunk of the iterator; `after` is where
\* the submitting thread goes once the iterator is exhausted.
Execute(kind, a, after) ==
    LET chunk == NextChunk(it, Len(particles), NUM_OF_THREADS)
        job == Job(kind, chunk, a)
    IN  /\ it < Len(particles)
        /\ queue' = Append(queue, job)
        /\ h_dispatched' = Append(h_dispatched, job)
        /\ it' = chunk.hi
        /\ pc' = IF chunk.hi >= Len(particles) THEN after ELSE pc
        /\ UNCHANGED <<particles, collision_counter, count, arg, running,
                       h_moves, h_compared, h_counter0, h_prev, h_new>>

\* A pool thread takes the oldest job from the channel.
TaskStart ==
    /\ queue # <<>>
    /\ Cardinality(running) < NUM_OF_THREADS
    /\ running' = running \cup {Begin(Head(queue))}
    /\ queue' = Tail(queue)
    /\ UNCHANGED <<particles, collision_counter, count, pc, it, arg,
                   h_dispatched, h_moves, h_compared, h_counter0,
                   h_prev, h_new>>

\* Mutant: a draw is also rejected when it lands on another particle.
MoveAcceptAvoid(t) ==
    /\ t.kind = "move" /\ t.stage = "draw" /\ t.i < ChunkLen(t)
    /\ \E rand_x \in Draws, rand_y \in Draws :
         LET p == t.lo + t.i
             new_x == particles[p].x + Displacement(rand_x)
             new_y == particles[p].y + Displacement(rand_y)
         IN  /\ InEnclosure(new_x, new_y, t.arg)
             /\ \A q \in Index \ {p} : particles[q] # Particle(new_x, new_y)
             /\ particles' = [particles EXCEPT ![p].x = new_x]
             /\ running' = (running \ {t}) \cup
                   {[t EXCEPT !.stage = "write_y", !.new_y = new_y]}
    /\ UNCHANGED <<collision_counter, count, pc, it, arg, queue,
                   h_dispatched, h_moves, h_compared, h_counter0,
                   h_prev, h_new>>

\* thread_move_particles, one turn of `loop` whose draw passes the test:
\* particle.x is written (line 43).
MoveAccept(t) ==
    /\ t.kind = "move" /\ t.stage = "draw" /\ t.i < ChunkLen(t)
    /\ \E rand_x \in Draws, rand_y \in Draws :
         LET p == t.lo + t.i
             new_x == particles[p].x + Displacement(rand_x)
             new_y == particles[p].y + Displacement(rand_y)
         IN  /\ InEnclosure(new_x, new_y, t.arg)
             /\ particles' = [particles EXCEPT ![p].x = new_x]
             /\ running' = (running \ {t}) \cup
                   {[t EXCEPT !.stage = "write_y", !.new_y = new_y]}
    /\ UNCHANGED <<collision_counter, count, pc, it, arg, queue,
                   h_dispatched, h_moves, h_compared, h_counter0,
                   h_prev, h_new>>

\* One turn of `loop` whose draw fails the test: nothing is written and the
\* loop draws again.
MoveReject(t) ==
    /\ t.kind = "move" /\ t.stage = "draw" /\ t.i < ChunkLen(t)
    /\ \E rand_x \in Draws, rand_y \in Draws :
         LET p == t.lo + t.i
             new_x == particles[p].x + Displacement(rand_x)
             new_y == particles[p].y + Displacement(rand_y)
         IN  ~InEnclosure(new_x, new_y, t.arg)
    /\ UNCHANGED vars

\* Mutant: new_y is written to the first particle of the slice.
MoveWriteYFirst(t) ==
    /\ t.kind = "move" /\ t.stage = "write_y"
    /\ particles' = [particles EXCEPT ![t.lo].y = t.new_y]
    /\ h_moves' = [h_moves EXCEPT ![t.lo + t.i] = @ + 1]
    /\ running' = (running \ {t}) \cup
          {[t EXCEPT !.stage = "draw", !.new_y = 0, !.i = NextParticle(t.i)]}
    /\ UNCHANGED <<collision_counter, count, pc, it, arg, queue,
                   h_dispatched, h_compared, h_counter0, h_prev, h_new>>

\* particle.y is written (line 44) and the loop is left (line 45).
MoveWriteY(t) ==
    /\ t.kind = "move" /\ t.stage = "write_y"
    /\ LET p == t.lo + t.i
       IN  /\ particles' = [particles EXCEPT ![p].y = t.new_y]
           /\ h_moves' = [h_moves EXCEPT ![p] = @ + 1]
    /\ running' = (running \ {t}) \cup
          {[t EXCEPT !.stage = "draw", !.new_y = 0, !.i = NextParticle(t.i)]}
    /\ UNCHANGED <<collision_counter, count, pc, it, arg, queue,
                   h_dispatched, h_compared, h_counter0, h_prev, h_new>>

\* A scan reads chunk[i] and chunk[j] while a mover job is writing the
\* same particles: a data race, whose outcome is not defined.
Racing(t) == \E m \in running : m.kind = "move" /\ Overlap(m, t)

\* thread_check_collisions, one turn of the inner loop (lines 58-59).
ScanCompare(t) ==
    /\ t.kind = "scan" /\ t.j < ChunkLen(t)
    /\ LET p == t.lo + t.i
           q == t.lo + t.j
           nxt == NextPair(t.i, t.j, ChunkLen(t))
       IN  /\ \E hit \in IF Racing(t) THEN BOOLEAN
                         ELSE {collide(particles[p], particles[q], t.arg)} :
                 collision_counter' =
                     IF hit THEN FetchAdd(collision_counter, 1)
                     ELSE collision_counter
           /\ h_compared' = [h_compared EXCEPT ![<<p, q>>] = @ + 1]
           /\ running' = (running \ {t}) \cup
                 {[t EXCEPT !.i = nxt.i, !.j = nxt.j]}
    /\ UNCHANGED <<particles, count, pc, it, arg, queue,
                   h_dispatched, h_moves, h_counter0, h_prev, h_new>>

\* The job's function returns and its thread is free again.
TaskFinish(t) ==
    /\ \/ t.kind = "move" /\ t.stage = "draw" /\ t.i >= ChunkLen(t)
       \/ t.kind = "scan" /\ t.j >= ChunkLen(t)
    /\ running' = running \ {t}
    /\ UNCHANGED <<particles, collision_counter, count, pc, it, arg, queue,
                   h_dispatched, h_moves, h_compared, h_counter0,
                   h_prev, h_new>>

Worker ==
    \/ TaskStart
    \/ \E t \in running : MoveAccept(t)
    \/ \E t \in running : MoveReject(t)
    \/ \E t \in running : MoveWriteY(t)
    \/ \E t \in running : ScanCompare(t)
    \/ \E t \in running : TaskFinish(t)

\* ------------------------------------------------------------- ParticleSystem
\* The arguments of ParticleSystem::new (line 77).
NewArgs(num_particles, max_x, max_y) ==
    [num_particles |-> num_particles, max_x |-> max_x, max_y |-> max_y]

\* ParticleSystem::new: every x drawn from 0.0..max_x, every y from
\* 0.0..max_y (half-open), and the counter at 0.
New(max_x, max_y) ==
    /\ particles \in [Index -> {Particle(x, y) : x \in 0..(max_x - 1),
                                                 y \in 0..(max_y - 1)}]
    /\ collision_counter = 0
    /\ h_new = NewArgs(NumParticles, max_x, max_y)

\* ------------------------------------------------------------- main
Init ==
    /\ New(EnclosureSize, EnclosureSize)
    /\ count = 0
    /\ pc = "while"
    /\ it = 0
    /\ arg = 0
    /\ queue = <<>>
    /\ running = {}
    /\ NoHistory
    /\ h_counter0 = 0

\* `while Instant::now() - start < duration` finds time left: count += 1
\* and pool.scoped is entered (lines 137-139).
MainTick ==
    /\ pc = "while"
    /\ count < MaxTicks
    /\ count' = count + 1
    /\ pc' = "move_loop"
    /\ it' = 0
    /\ ResetHistory
    /\ UNCHANGED <<particles, collision_counter, arg, queue, running, h_prev,
                   h_new>>

\* Lines 141-145.
MainExecuteMove ==
    /\ pc = "move_loop"
    /\ Execute("move", EnclosureSize, "move_done")

\* Line 148: the second iterator over the particles is made.
MainScanLoop ==
    /\ pc = "move_done"
    /\ pc' = "scan_loop"
    /\ it' = 0
    /\ UNCHANGED <<particles, collision_counter, count, arg, queue, running,
                   h_dispatched, h_moves, h_compared, h_counter0,
                   h_prev, h_new>>

\* Lines 148-153.
MainExecuteScan ==
    /\ pc = "scan_loop"
    /\ Execute("scan", Threshold, "join")

\* Line 154: the closure has returned and the scope joins its jobs.
MainJoin ==
    /\ pc = "join"
    /\ JoinAll
    /\ pc' = "while"
    /\ UNCHANGED <<particles, collision_counter, count, it, arg, queue,
                   running, h_dispatched, h_moves, h_compared, h_counter0,
                   h_prev, h_new>>

\* The deadline has passed: the loop is left and the totals are printed.
MainExit ==
    /\ pc = "while"
    /\ pc' = "done"
    /\ UNCHANGED <<particles, collision_counter, count, it, arg, queue,
                   running, h_dispatched, h_moves, h_compared, h_counter0,
                   h_prev, h_new>>

Next ==
    \/ MainTick
    \/ MainExecuteMove
    \/ MainScanLoop
    \/ MainExecuteScan
    \/ MainJoin
    \/ MainExit
    \/ Worker

Spec == Init /\ [][Next]_vars

\* ------------------------------------------------------------- callers of the methods
EnclosureSizes == {EnclosureSize}
Thresholds == 0..Threshold

InitOps ==
    /\ New(EnclosureSize, EnclosureSize)
    /\ count = 0
    /\ pc = "idle"
    /\ it = 0
    /\ arg = 0
    /\ queue = <<>>
    /\ running = {}
    /\ NoHistory
    /\ h_counter0 = 0

\* ParticleSystem::move_particles is called (line 99).
CallMoveParticles ==
    /\ pc = "idle"
    /\ \E enclosure_size \in EnclosureSizes : arg' = enclosure_size
    /\ pc' = IF particles = <<>> THEN "mp_join" ELSE "mp_loop"
    /\ it' = 0
    /\ ResetHistory
    /\ h_prev' = LastCall
    /\ UNCHANGED <<particles, collision_counter, count, queue, running, h_new>>

\* Lines 101-105.
MpExecute ==
    /\ pc = "mp_loop"
    /\ Execute("move", arg, "mp_join")

\* Line 106: the scope joins its jobs and move_particles returns.
MpJoin ==
    /\ pc = "mp_join"
    /\ JoinAll
    /\ pc' = "idle"
    /\ UNCHANGED <<particles, collision_counter, count, it, arg, queue,
                   running, h_dispatched, h_moves, h_compared, h_counter0,
                   h_prev, h_new>>

\* ParticleSystem::check_collisions is called (line 109).
CallCheckCollisions ==
    /\ pc = "idle"
    /\ collision_counter < MaxCounter
    /\ \E threshold \in Thresholds : arg' = threshold
    /\ pc' = IF particles = <<>> THEN "cc_join" ELSE "cc_loop"
    /\ it' = 0
    /\ ResetHistory
    /\ h_prev' = LastCall
    /\ UNCHANGED <<particles, collision_counter, count, queue, running, h_new>>

\* Lines 111-116.
CcExecute ==
    /\ pc = "cc_loop"
    /\ Execute("scan", arg, "cc_join")

\* Line 117: the scope joins its jobs and check_collisions returns.
CcJoin ==
    /\ pc = "cc_join"
    /\ JoinAll
    /\ pc' = "idle"
    /\ UNCHANGED <<particles, collision_counter, count, it, arg, queue,
                   running, h_dispatched, h_moves, h_compared, h_counter0,
                   h_prev, h_new>>

NextOps ==
    \/ CallMoveParticles
    \/ MpExecute
    \/ MpJoin
    \/ CallCheckCollisions
    \/ CcExecute
    \/ CcJoin
    \/ Worker

SpecOps == InitOps /\ [][NextOps]_vars

\* The same program under the scheduling the pool gives: a free thread
\* takes a waiting job, a running job takes its next step, a draw that
\* passes the test comes up, and the submitting thread goes on.
SpecOpsFair ==
    /\ SpecOps
    /\ WF_vars(TaskStart)
    /\ WF_vars(\E t \in running : MoveAccept(t))
    /\ WF_vars(\E t \in running : MoveWriteY(t))
    /\ WF_vars(\E t \in running : ScanCompare(t))
    /\ WF_vars(\E t \in running : TaskFinish(t))
    /\ WF_vars(MpExecute) /\ WF_vars(MpJoin)
    /\ WF_vars(CcExecute) /\ WF_vars(CcJoin)

\* ------------------------------------------------------------- callers of new
\* A caller that also chooses what ParticleSystem::new is given, and may
\* hand move_particles an enclosure_size that is not positive: lines 77-107
\* test none of these arguments.
FarSize == EnclosureSize + Res + 2
NumParticlesArgs == {0, NumParticles}
MaxArgs == {0, FarSize}
NonPositiveSizes == {0 - 1, 0}
NoArgs == NewArgs(0, 0, 0)

\* The positions sampled from 0.0..max: the two ends of the range.
Ends(max) == {0, max - 1}

InitNew ==
    /\ particles = <<>>
    /\ collision_counter = 0
    /\ h_new = NoArgs
    /\ count = 0
    /\ pc = "new"
    /\ it = 0
    /\ arg = 0
    /\ queue = <<>>
    /\ running = {}
    /\ NoHistory
    /\ h_counter0 = 0

\* ParticleSystem::new(num_particles, max_x, max_y), lines 77-97.  The loop
\* of line 82 runs num_particles times; gen_range (rand) panics when its
\* range 0.0..max is empty, which is the only way the call does not return
\* a system.
Construct ==
    /\ pc = "new"
    /\ \E num_particles \in NumParticlesArgs, max_x \in MaxArgs,
          max_y \in MaxArgs :
          /\ h_new' = NewArgs(num_particles, max_x, max_y)
          /\ IF num_particles > 0 /\ (max_x <= 0 \/ max_y <= 0)
             THEN /\ pc' = "panicked"
                  /\ particles' = <<>>
             ELSE /\ pc' = "idle"
                  /\ particles' \in
                        [1..num_particles ->
                            {Particle(x, y) : x \in Ends(max_x),
                                              y \in Ends(max_y)}]
    /\ collision_counter' = 0
    /\ UNCHANGED <<count, it, arg, queue, running, h_dispatched, h_moves,
                   h_compared, h_counter0, h_prev>>

\* ParticleSystem::move_particles called with an enclosure_size <= 0
\* (line 99).
CallMoveParticlesNonPositive ==
    /\ pc = "idle"
    /\ \E enclosure_size \in NonPositiveSizes : arg' = enclosure_size
    /\ pc' = IF particles = <<>> THEN "mp_join" ELSE "mp_loop"
    /\ it' = 0
    /\ ResetHistory
    /\ h_prev' = LastCall
    /\ UNCHANGED <<particles, collision_counter, count, queue, running, h_new>>

NextNew ==
    \/ Construct
    \/ CallMoveParticlesNonPositive
    \/ NextOps

SpecNew == InitNew /\ [][NextNew]_vars

\* ------------------------------------------------------------- vocabulary of the properties
\* The chunk (counted from 0) of particle p when the chunks have `size`
\* particles each.
ChunkOf(p, size) == (p - 1) \div size

SameChunk(pr) ==
    ChunkOf(pr[1], NUM_OF_THREADS) = ChunkOf(pr[2], NUM_OF_THREADS)

InChunkPairs == {pr \in Pairs : SameChunk(pr)}

NumChunks == (NumParticles + NUM_OF_THREADS - 1) \div NUM_OF_THREADS

\* Squared distance of the particles of a pair, as they are now.
Dist2(pr) ==
    (particles[pr[1]].x - particles[pr[2]].x)
        * (particles[pr[1]].x - particles[pr[2]].x)
    + (particles[pr[1]].y - particles[pr[2]].y)
        * (particles[pr[1]].y - particles[pr[2]].y)

CollidingInChunk(threshold) ==
    {pr \in InChunkPairs : Dist2(pr) <= threshold * threshold}

MoveJobsWaiting == {k \in 1..Len(queue) : queue[k].kind = "move"}
MoveTasks == {t \in running : t.kind = "move"}
ScanTasks == {t \in running : t.kind = "scan"}

\* The last call made was of the given kind and has returned.
Returned(kind) ==
    /\ pc = "idle"
    /\ h_dispatched # <<>>
    /\ h_dispatched[1].kind = kind

\* ------------------------------------------------------------- C1
\* C1: in every tick, no collision-scan job starts until every movement
\* job of the tick has completed, and no scan job and move job on
\* overlapping particles run at the same time.
C1_ScanAfterMoves ==
    /\ ScanTasks # {} => (MoveJobsWaiting = {} /\ MoveTasks = {})
    /\ \A s \in ScanTasks : \A m \in MoveTasks : ~Overlap(s, m)

\* The second half of C1 alone: a scan never runs with a mover of its own
\* particles.
C1_NoOverlappingScanAndMove ==
    \A s \in ScanTasks : \A m \in MoveTasks : ~Overlap(s, m)

C3_ChunkIsolation ==
    /\ \A pr \in Pairs : h_compared[pr] > 0 => SameChunk(pr)
    /\ (Returned("scan") /\ CollidingInChunk(arg) = {})
           => collision_counter = h_counter0

\* check_collisions has returned without counting anything although two
\* particles on either side of a chunk boundary are at distance 0.
C3_Witness ==
    /\ Returned("scan")
    /\ \E pr \in Pairs : ~SameChunk(pr) /\ Dist2(pr) = 0
    /\ CollidingInChunk(arg) = {}
    /\ collision_counter = h_counter0
    /\ \A pr \in InChunkPairs : h_compared[pr] = 1

C5_SlicesDisjoint ==
    /\ \A a \in MoveTasks : \A b \in MoveTasks : a # b => ~Overlap(a, b)
    /\ \A a \in MoveTasks : \A k \in MoveJobsWaiting : ~Overlap(a, queue[k])
    /\ \A k \in MoveJobsWaiting : \A l \in MoveJobsWaiting :
           k # l => ~Overlap(queue[k], queue[l])

C5_OnlyMoversWrite ==
    \A p \in Index :
        particles'[p] # particles[p] =>
            Cardinality({t \in MoveTasks : t.lo <= p /\ p <= t.hi}) = 1

C5_ExclusiveWriters == []C5_SlicesDisjoint /\ [][C5_OnlyMoversWrite]_vars

\* Two move jobs of the loop of main are running at once, each between
\* its write of x and its write of y.
C5_Witness ==
    /\ pc \in {"move_done", "scan_loop", "join"}
    /\ \E a \in MoveTasks : \E b \in MoveTasks :
           a # b /\ a.stage = "write_y" /\ b.stage = "write_y"

\* ------------------------------------------------------------- C6
\* C6: the k-th chunk handed out by move_particles and by check_collisions
\* alike is the particles (k-1)*c+1 .. min(k*c, n) for chunk length
\* c = NUM_OF_THREADS; every chunk has c particles but the last, which has
\* n mod c when that is not 0; and once the iterator is exhausted
\* ceil(n/c) chunks have been handed out.
C6_Partition ==
    /\ \A k \in 1..Len(h_dispatched) :
           /\ h_dispatched[k].lo = (k - 1) * NUM_OF_THREADS + 1
           /\ h_dispatched[k].hi = Min(k * NUM_OF_THREADS, NumParticles)
           /\ h_dispatched[k].hi - h_dispatched[k].lo + 1 =
                  IF k < NumChunks \/ NumParticles % NUM_OF_THREADS = 0
                  THEN NUM_OF_THREADS
                  ELSE NumParticles % NUM_OF_THREADS
    /\ Len(h_dispatched) <= NumChunks
    /\ pc \in {"mp_join", "cc_join"} => Len(h_dispatched) = NumChunks
    /\ (pc = "idle" /\ h_dispatched # <<>>) => Len(h_dispatched) = NumChunks

\* check_collisions has returned having handed out a full chunk and then a
\* shorter last chunk, after particles were moved off their first places.
C6_Witness ==
    /\ Returned("scan")
    /\ Len(h_dispatched) = NumChunks
    /\ NumChunks >= 2
    /\ h_dispatched[1].hi - h_dispatched[1].lo + 1 = NUM_OF_THREADS
    /\ h_dispatched[NumChunks].hi = NumParticles
    /\ \E p \in Index : particles[p] # Particle(0, 0)

\* ------------------------------------------------------------- C7
\* C7: the collision counter is 0 after construction and no step of a run
\* makes it smaller.
C7_CounterMonotonic ==
    collision_counter = 0 /\ [][collision_counter' >= collision_counter]_vars

\* The second tick of main is over, and the counter has grown in the first
\* tick and again in the second.
C7_Witness ==
    /\ pc = "while"
    /\ count = 2
    /\ h_counter0 > 0
    /\ collision_counter > h_counter0

\* ------------------------------------------------------------- C8
\* C8: whenever a move job is about to draw for a particle, some draw
\* passes the acceptance test; and every call of move_particles returns,
\* with every particle moved.
C8_AcceptPossible ==
    \A t \in MoveTasks :
        (t.stage = "draw" /\ t.i < ChunkLen(t)) =>
            \E rand_x \in Draws, rand_y \in Draws :
                /\ 0 <= particles[t.lo + t.i].x + (rand_x - Res)
                /\ particles[t.lo + t.i].x + (rand_x - Res) <= t.arg
                /\ 0 <= particles[t.lo + t.i].y + (rand_y - Res)
                /\ particles[t.lo + t.i].y + (rand_y - Res) <= t.arg

C8_AdvanceTerminates ==
    /\ []C8_AcceptPossible
    /\ (pc = "mp_loop") ~> (Returned("move") /\ \A p \in Index : h_moves[p] >= 1)

\* A move job is about to draw for a particle on the far corner of the
\* enclosure, having already moved the particle before it.
C8_Witness ==
    \E t \in MoveTasks :
        /\ t.stage = "draw" /\ t.i >= 1 /\ t.i < ChunkLen(t)
        /\ particles[t.lo + t.i] = Particle(EnclosureSize, EnclosureSize)
        /\ h_moves[t.lo] = 1

\* ------------------------------------------------------------- C9
\* C9: a call of move_particles executes exactly one move job per chunk,
\* never moves a particle twice, and returns only when no job is waiting
\* or running and every particle has had exactly one committed move.
C9_OneMoveEach ==
    /\ (pc \in {"mp_loop", "mp_join"} \/ Returned("move")) =>
           /\ \A p \in Index : h_moves[p] <= 1
           /\ \A k \in 1..Len(h_dispatched) : \A l \in 1..Len(h_dispatched) :
                  k # l => h_dispatched[k].lo # h_dispatched[l].lo
           /\ \A k \in 1..Len(h_dispatched) : h_dispatched[k].kind = "move"
    /\ Returned("move") =>
           /\ queue = <<>> /\ running = {}
           /\ Len(h_dispatched) = NumChunks
           /\ \A p \in Index : h_moves[p] = 1

\* move_particles has returned after two chunk jobs, every particle moved
\* once.
C9_Witness ==
    /\ Returned("move")
    /\ Len(h_dispatched) >= 2
    /\ \A p \in Index : h_moves[p] = 1
    /\ \E p \in Index : particles[p] # Particle(0, 0)

\* ------------------------------------------------------------- C10
\* C10: the deadline is examined only with no job of a tick waiting or
\* running and the tick's jobs all done (every particle moved once, every
\* pair of a chunk compared once); count changes only where the deadline
\* is examined and a tick begins, by exactly 1.
C10_TickDone ==
    pc \in {"while", "done"} =>
        /\ queue = <<>> /\ running = {}
        /\ count > 0 =>
               /\ \A p \in Index : h_moves[p] = 1
               /\ \A pr \in InChunkPairs : h_compared[pr] = 1
               /\ Len(h_dispatched) = 2 * NumChunks

C10_CountStep ==
    /\ count' # count =>
           (pc = "while" /\ pc' = "move_loop" /\ count' = count + 1)
    /\ (pc = "while" /\ pc' = "move_loop") => count' = count + 1
    /\ (pc # "while" /\ pc' = "while") => (pc = "join" /\ count' = count)

C10_TicksUninterrupted == []C10_TickDone /\ [][C10_CountStep]_vars

\* The loop of main is left after its second tick.
C10_Witness ==
    /\ pc = "done"
    /\ count = 2
    /\ \A p \in Index : h_moves[p] = 1
    /\ Len(h_dispatched) = 2 * NumChunks

\* ------------------------------------------------------------- C11
\* C11: no step taken during a call of check_collisions changes a
\* particle, no step taken during a call of move_particles changes the
\* counter, and the calls themselves change neither.
C11_FrameStep ==
    /\ pc \in {"cc_loop", "cc_join"} => particles' = particles
    /\ pc \in {"mp_loop", "mp_join"} => collision_counter' = collision_counter
    /\ pc = "idle" =>
           (particles' = particles /\ collision_counter' = collision_counter)

C11_DisjointWrites == [][C11_FrameStep]_vars

\* check_collisions has returned with the counter raised, after
\* move_particles had put a particle on the far corner.
C11_Witness ==
    /\ Returned("scan")
    /\ collision_counter > h_counter0
    /\ \E p \in Index : particles[p] = Particle(EnclosureSize, EnclosureSize)

\* ------------------------------------------------------------- C12
\* C12: the particle sequence always has the indices 1 .. num_particles,
\* and a step that changes it changes one coordinate of one particle, in
\* place: the particle a running move job is at.
C12_Length == Len(particles) = NumParticles /\ DOMAIN particles = Index

C12_InPlace ==
    /\ DOMAIN particles' = DOMAIN particles
    /\ \A p \in Index :
           particles'[p] # particles[p] =>
               /\ \E t \in MoveTasks : p = t.lo + t.i
               /\ \A q \in Index \ {p} : particles'[q] = particles[q]
               /\ \/ particles'[p].x = particles[p].x
                  \/ particles'[p].y = particles[p].y

C12_StableSequence == []C12_Length /\ [][C12_InPlace]_vars

\* move_particles has returned with every particle moved once and no two
\* particles on the same place, so that any change of order would show.
C12_Witness ==
    /\ Returned("move")
    /\ \A p \in Index : h_moves[p] = 1
    /\ \A pr \in Pairs : Dist2(pr) > 0

\* ------------------------------------------------------------- C13
\* C13: a comparison of a pair adds 1 to the counter when the squared
\* distance of the pair is at most the squared threshold, the boundary
\* included, and adds nothing otherwise; with coordinates in hundredths,
\* (0,0) and (0.05,0) collide under threshold 0.1 and not under 0.04.
C13_Example ==
    /\ collide(Particle(0, 0), Particle(5, 0), 10)
    /\ ~collide(Particle(0, 0), Particle(5, 0), 4)

C13_CompareStep ==
    \A pr \in Pairs :
        h_compared'[pr] = h_compared[pr] + 1 =>
            collision_counter' =
                collision_counter + (IF Dist2(pr) <= arg * arg THEN 1 ELSE 0)

C13_CollideExact == C13_Example /\ [][C13_CompareStep]_vars

\* check_collisions has returned having counted a pair whose distance is
\* exactly the threshold, which is not 0.
C13_Witness ==
    /\ Returned("scan")
    /\ arg > 0
    /\ \E pr \in InChunkPairs : Dist2(pr) = arg * arg
    /\ collision_counter = h_counter0 + 1

\* ------------------------------------------------------------- C14
\* C14: collide gives the same answer for a pair of particles in either
\* order, for every two particles of the system and every threshold.
C14_Symmetric ==
    \A p \in Index : \A q \in Index : \A threshold \in Thresholds :
        collide(particles[p], particles[q], threshold)
            = collide(particles[q], particles[p], threshold)

\* check_collisions has compared two particles of which one is further
\* along x and the other further along y.
C14_Witness ==
    /\ Returned("scan")
    /\ \E pr \in InChunkPairs :
           /\ h_compared[pr] = 1
           /\ particles[pr[1]].x < particles[pr[2]].x
           /\ particles[pr[1]].y > particles[pr[2]].y

\* ------------------------------------------------------------- C16
\* C16 as stated: every committed displacement of a coordinate lies
\* strictly between -1 and +1 (Res grid steps).
C16_OpenStep ==
    \A p \in Index :
        /\ -Res < particles'[p].x - particles[p].x
        /\ particles'[p].x - particles[p].x < Res
        /\ -Res < particles'[p].y - particles[p].y
        /\ particles'[p].y - particles[p].y < Res

C16_OpenInterval == [][C16_OpenStep]_vars

\* C16 as amended: every committed displacement of a coordinate lies in
\* the half-open interval from -1, included, to +1, excluded.
C16_HalfOpenStep ==
    \A p \in Index :
        /\ -Res <= particles'[p].x - particles[p].x
        /\ particles'[p].x - particles[p].x < Res
        /\ -Res <= particles'[p].y - particles[p].y
        /\ particles'[p].y - particles[p].y < Res

C16_HalfOpenInterval == [][C16_HalfOpenStep]_vars

\* A move job has written the new x of a particle and is about to write a
\* new y that is exactly 1 below the old one.
C16_Witness ==
    \E t \in MoveTasks :
        /\ t.stage = "write_y"
        /\ t.new_y - particles[t.lo + t.i].y = -Res
        /\ InEnclosure(particles[t.lo + t.i].x, t.new_y, t.arg)

\* ------------------------------------------------------------- C18
\* C18: the places a move job can take a particle to are those one
\* displacement away from the particle's own place and inside the
\* enclosure - all of them, whatever the other particles, jobs and chunks
\* are - and no others.
C18_Targets(pos, enclosure_size) ==
    {tg \in {Particle(pos.x + dx, pos.y + dy) :
                 dx \in (-Res)..(Res - 1), dy \in (-Res)..(Res - 1)} :
        /\ 0 <= tg.x /\ tg.x <= enclosure_size
        /\ 0 <= tg.y /\ tg.y <= enclosure_size}

C18_AllTargetsOpen ==
    \A t \in MoveTasks :
        (t.stage = "draw" /\ t.i < ChunkLen(t)) =>
            \A tg \in C18_Targets(particles[t.lo + t.i], t.arg) :
                ENABLED (/\ MoveAccept(t)
                         /\ particles'[t.lo + t.i].x = tg.x
                         /\ \E u \in running' :
                                u.lo = t.lo /\ u.new_y = tg.y)

C18_OnlyOwnTargets ==
    \A t \in MoveTasks :
        t.stage = "write_y" =>
            \E tg \in C18_Targets(
                          Particle(particles[t.lo + t.i].x,
                                   particles[t.lo + t.i].y), t.arg) :
                tg.y = t.new_y

C18_XStep ==
    \A p \in Index :
        particles'[p].x # particles[p].x =>
            \E tg \in C18_Targets(particles[p], arg) : tg.x = particles'[p].x

C18_Independent ==
    /\ [](C18_AllTargetsOpen /\ C18_OnlyOwnTargets)
    /\ [][C18_XStep]_vars

\* A move job is about to draw for a particle while the job of the other
\* chunk is in the middle of a move and a particle of that other chunk
\* sits on a place the draw can lead to.
C18_Witness ==
    \E t \in MoveTasks : \E u \in MoveTasks :
        /\ t # u
        /\ t.stage = "draw" /\ t.i < ChunkLen(t)
        /\ u.stage = "write_y"
        /\ \E q \in Index :
               /\ ChunkOf(q, NUM_OF_THREADS)
                      # ChunkOf(t.lo + t.i, NUM_OF_THREADS)
               /\ particles[q] # particles[t.lo + t.i]
               /\ particles[q] \in C18_Targets(particles[t.lo + t.i], t.arg)

\* ------------------------------------------------------------- C20
\* C20: after count ticks the counter is at most count times the number of
\* pairs inside the chunks, floor(n/c) * C(c,2) + C(n mod c, 2), in every
\* state of the run, and within a tick it has grown by at most that number.
Choose2(k) == (k * (k - 1)) \div 2

PairsPerTick ==
    (NumParticles \div NUM_OF_THREADS) * Choose2(NUM_OF_THREADS)
        + Choose2(NumParticles % NUM_OF_THREADS)

C20_PartitionBound ==
    /\ collision_counter <= count * PairsPerTick
    /\ collision_counter <= h_counter0 + PairsPerTick

\* Two ticks are over, the counter has reached its bound, and there are
\* more pairs at distance 0 than the chunks hold.
C20_Witness ==
    /\ pc = "while"
    /\ count = 2
    /\ collision_counter = 2 * PairsPerTick
    /\ Cardinality({pr \in Pairs : Dist2(pr) = 0}) > PairsPerTick

\* ------------------------------------------------------------- C15
\* C15: when check_collisions returns and the call before it was
\* check_collisions with the same threshold, the two calls have added the
\* same amount, and together twice the number of colliding pairs inside
\* the chunks.
C15_TwiceInARow ==
    /\ Returned("scan")
    /\ h_prev.kind = "scan"
    /\ h_prev.arg = arg

C15_Additive ==
    C15_TwiceInARow =>
        /\ collision_counter - h_counter0 = h_prev.gain
        /\ collision_counter - (h_counter0 - h_prev.gain)
               = 2 * Cardinality(CollidingInChunk(arg))

\* Two calls in a row with the same threshold have each counted the one
\* colliding pair of the full chunk, on particles moved before.
C15_Witness ==
    /\ C15_TwiceInARow
    /\ h_prev.gain >= 1
    /\ collision_counter = h_counter0 + h_prev.gain
    /\ \E p \in Index : particles[p] = Particle(EnclosureSize, EnclosureSize)

\* ------------------------------------------------------------- C19
\* A particle no draw can bring into [0, enclosure_size]: one coordinate is
\* more than 1 above enclosure_size, or more than 1 below 0.
OutOfReach(p, enclosure_size) ==
    \/ particles[p].x > enclosure_size + Res
    \/ particles[p].y > enclosure_size + Res
    \/ particles[p].x < 0 - Res
    \/ particles[p].y < 0 - Res

\* The particles out of reach that the move_particles call in progress
\* has not moved.
Stranded ==
    {p \in DOMAIN particles :
        /\ pc \in {"mp_loop", "mp_join"}
        /\ h_moves[p] = 0
        /\ OutOfReach(p, arg)}

\* C19: new takes max_x and max_y whatever enclosure_size is passed to
\* move_particles later, and a particle with x or y more than 1 above
\* that enclosure_size (or more than 1 below 0) has no draw that passes
\* the test: the loop on it never ends, the job of its chunk never
\* finishes and move_particles never returns.
C19_NoAcceptedDraw ==
    \A t \in MoveTasks :
        (/\ t.stage = "draw"
         /\ t.i < ChunkLen(t)
         /\ OutOfReach(t.lo + t.i, t.arg)) => ~ENABLED MoveAccept(t)

C19_NeverReturns ==
    \A p \in Stranded :
        /\ pc' \in {"mp_loop", "mp_join"}
        /\ particles'[p] = particles[p]
        /\ h_moves'[p] = 0
        /\ \A t \in MoveTasks :
              (t.lo <= p /\ p <= t.hi) =>
                  \E u \in running' : u.kind = "move" /\ u.lo = t.lo

C19_StuckForever == []C19_NoAcceptedDraw /\ [][C19_NeverReturns]_vars

\* move_particles was given a positive enclosure_size; every job but one
\* has finished, after moving its particles, and the one left is drawing
\* for a particle that new placed more than 1 beyond enclosure_size.
C19_Witness ==
    /\ pc = "mp_join"
    /\ queue = <<>>
    /\ arg > 0
    /\ h_new.max_x > arg + Res + 1
    /\ \E p \in DOMAIN particles : h_moves[p] = 1
    /\ \E t \in MoveTasks :
          /\ running = {t}
          /\ t.stage = "draw"
          /\ t.i < ChunkLen(t)
          /\ particles[t.lo + t.i].x > t.arg + Res
          /\ t.lo + t.i \in Stranded

\* ------------------------------------------------------------- C17
ValidArgs ==
    /\ h_new.num_particles > 0
    /\ h_new.max_x > 0
    /\ h_new.max_y > 0

\* C17: new rejects a zero particle count and an enclosure size of zero
\* or less, so that no system is made from them on which move_particles
\* or check_collisions can run, and the rejection loop never runs with an
\* enclosure_size of zero or less.
C17_RejectedAtConstruction ==
    /\ ~ValidArgs => pc \in {"new", "panicked"}
    /\ \A t \in MoveTasks : t.arg > 0

\* The second half of C17 alone, on a system made from valid arguments.
C17_LoopOnPositiveSize ==
    ValidArgs => \A t \in MoveTasks : t.arg > 0

====
